---------------------------- MODULE Spec2Model ----------------------------
(***************************************************************************)
(* deepface-db: the record store behind app/main.py.                       *)
(*                                                                         *)
(* Two tables (users, embeddings) in one SQLite file, ten request handlers *)
(* that each open a session, run one or more SQL statements and commit.    *)
(*                                                                         *)
(* Spec       the user handlers, one request at a time: every handler is   *)
(*            one action.                                                  *)
(* SpecEmb    the embedding handlers, one request at a time.               *)
(* SpecClock  the writing user handlers while time passes and the server   *)
(*            is restarted.                                                *)
(* SpecConc   the writing user handlers of two clients, interleaved at     *)
(*            the level of their SQL statements (SELECT, then              *)
(*            INSERT|UPDATE|DELETE with its COMMIT, then the SELECT of     *)
(*            db.refresh).                                                 *)
(***************************************************************************)
EXTENDS Integers, Sequences, FiniteSets

VARIABLES
    users,       \* table "users": sequence of rows in rowid order
    embeddings,  \* table "embeddings": sequence of rows in rowid order
    now,         \* the wall clock
    bootTime,    \* the clock when app/main.py was imported by this process
    resp,        \* the response to the last request served (Spec)
    sess         \* per client: the session of the request in flight (SpecConc)

vars == <<users, embeddings, now, bootTime, resp, sess>>

---------------------------------------------------------------------------
(* Bounds of the model.                                                    *)

MaxId == 3        \* no row id above this is handed out
MaxConcId == 2    \* the same, when requests interleave
MaxClock == 2     \* the clock stops here
MaxSkip == 2      \* largest skip / limit tried besides the defaults
DefaultSkip == 0
DefaultLimit == 100

Names == {"n1", "n2"}
Emails == {"e1", "e2"}
Phones == {"p1", "p2"}
Birthdays == {"b1"}
Clients == {"c1", "c2"}

UserFields == {"name", "email", "phone", "birthday"}

\* UserCreate: four required strings.  Create requests of the model carry
\* non-empty values; update requests may carry "" in any field.
CreateReqs == [name : Names, email : Emails, phone : Phones, birthday : Birthdays]
UpdateReqs ==
    [name : {"", "n2"}, email : Emails \cup {""}, phone : Phones \cup {""},
     birthday : {""}]
\* Every update request the properties are stated for.
AllUpdateReqs ==
    [name : Names \cup {""}, email : Emails \cup {""}, phone : Phones \cup {""},
     birthday : {"", "b1", "b2"}]

\* EmbeddingCreate: user_id int, embedding_vector list[float].  A vector is
\* written as the sequence of its numbers, in a request and in a stored row.
Vectors == {<<>>, <<3>>}
EmbeddingReqs == [user_id : 0 .. 2, embedding_vector : Vectors]

Ids == 1 .. MaxId
Skips == (-1 .. MaxSkip) \cup {DefaultSkip}
Limits == (-1 .. MaxSkip) \cup {DefaultLimit}

---------------------------------------------------------------------------
(* The storage engine: what the SQL statements of the handlers do.         *)

\* Integer primary key of a SQLite table without AUTOINCREMENT: the rowid
\* of a new row is one more than the largest rowid in the table.
RowCountPlusOne(T) == Len(T) + 1
NextRowId(T) == IF T = <<>> THEN 1 ELSE T[Len(T)].id + 1

\* query(...).filter(id == i).first(): the rows with that id (none or one).
SelectById(T, i) == SelectSeq(T, LAMBDA r : r.id = i)

\* unique=True on email and on phone: no other row holds either value.
UniqueOkEmailOnly(T, row) ==
    \A k \in 1 .. Len(T) : T[k].id # row.id => T[k].email # row.email
UniqueOk(T, row) ==
    \A k \in 1 .. Len(T) :
        T[k].id # row.id => T[k].email # row.email /\ T[k].phone # row.phone

\* DELETE FROM t WHERE id = i.
DeleteById(T, i) == SelectSeq(T, LAMBDA r : r.id # i)

\* UPDATE t SET ... WHERE id = row.id.
ReplaceRow(T, row) == [k \in 1 .. Len(T) |-> IF T[k].id = row.id THEN row ELSE T[k]]

\* OFFSET n: a negative n skips nothing.
RECURSIVE Offset(_, _)
Offset(s, n) == IF n <= 0 \/ s = <<>> THEN s ELSE Offset(Tail(s), n - 1)

\* LIMIT n: a negative n is no limit.
RECURSIVE Limit(_, _)
Limit(s, n) ==
    IF n < 0 THEN s
    ELSE IF n = 0 \/ s = <<>> THEN <<>>
    ELSE <<Head(s)>> \o Limit(Tail(s), n - 1)

---------------------------------------------------------------------------
(* The handlers, as functions of the tables.  Each result is               *)
(* [status, table, body]: the HTTP status, the table after the request     *)
(* and the rows returned.                                                  *)

\* Column default of date_added: datetime.now().strftime(...) is an argument
\* of Column(), so it is the string computed once, when the class body of
\* User ran.  The clock of the model counts seconds and the string names
\* the second.
DateAddedDefault(boot) == boot

NewUser(T, boot, req) ==
    [id |-> NextRowId(T), name |-> req.name, email |-> req.email,
     phone |-> req.phone, birthday |-> req.birthday,
     date_added |-> DateAddedDefault(boot)]

\* db.add + db.commit of create_user: INSERT, or IntegrityError and rollback.
InsertUserUnchecked(T, boot, req) ==
    [ok |-> TRUE, table |-> Append(T, NewUser(T, boot, req)), id |-> NextRowId(T)]
InsertUser(T, boot, req) ==
    LET row == NewUser(T, boot, req)
    IN  IF UniqueOk(T, row)
        THEN [ok |-> TRUE, table |-> Append(T, row), id |-> row.id]
        ELSE [ok |-> FALSE, table |-> T, id |-> 0]

\* db.refresh: reload the row by primary key; fails when it is gone.
Refresh(T, i) ==
    LET got == SelectById(T, i)
    IN  IF got = <<>> THEN [status |-> 500, body |-> <<>>]
        ELSE [status |-> 200, body |-> got]

create_user_no_refresh(T, boot, req) ==
    LET ins == InsertUser(T, boot, req)
    IN  IF ~ins.ok THEN [status |-> 500, table |-> T, body |-> <<>>]
        ELSE [status |-> 200, table |-> ins.table,
              body |-> <<[NewUser(T, boot, req) EXCEPT !.id = 0]>>]
create_user(T, boot, req) ==
    LET ins == InsertUser(T, boot, req)
    IN  IF ~ins.ok THEN [status |-> 500, table |-> T, body |-> <<>>]
        ELSE LET r == Refresh(ins.table, ins.id)
             IN  [status |-> r.status, table |-> ins.table, body |-> r.body]

read_user(T, i) ==
    LET got == SelectById(T, i)
    IN  IF got = <<>> THEN [status |-> 404, table |-> T, body |-> <<>>]
        ELSE [status |-> 200, table |-> T, body |-> got]

read_users_limit_first(T, skip, limit) ==
    [status |-> 200, table |-> T, body |-> Offset(Limit(T, limit), skip)]
read_users(T, skip, limit) ==
    [status |-> 200, table |-> T, body |-> Limit(Offset(T, skip), limit)]

\* for var, value in vars(user).items(): setattr(db_user, var, value) if value
Truthy(value) == value # ""
SetAttrsAlways(row, req) ==
    [f \in DOMAIN row |-> IF f \in UserFields THEN req[f] ELSE row[f]]
SetAttrs(row, req) ==
    [f \in DOMAIN row |->
        IF f \in UserFields /\ Truthy(req[f]) THEN req[f] ELSE row[f]]

\* db.commit of update_user: the unit of work emits
\* UPDATE users SET <changed columns> WHERE id = <loaded id> when an
\* attribute differs from the value loaded, and nothing otherwise.
FlushUserUnchecked(T, loaded, req) ==
    LET target == SetAttrs(loaded, req)
    IN  IF SelectById(T, loaded.id) = <<>> THEN [ok |-> TRUE, table |-> T]
        ELSE [ok |-> TRUE, table |-> ReplaceRow(T, target)]
FlushUser(T, loaded, req) ==
    LET target == SetAttrs(loaded, req)
        changed == {f \in UserFields : target[f] # loaded[f]}
        cur == SelectById(T, loaded.id)
    IN  IF changed = {} THEN [ok |-> TRUE, table |-> T]
        ELSE IF cur = <<>> THEN [ok |-> FALSE, table |-> T]
        ELSE LET row == [f \in DOMAIN loaded |->
                            IF f \in changed THEN target[f] ELSE cur[1][f]]
             IN  IF UniqueOk(T, row)
                 THEN [ok |-> TRUE, table |-> ReplaceRow(T, row)]
                 ELSE [ok |-> FALSE, table |-> T]

update_user(T, i, req) ==
    LET got == SelectById(T, i)
    IN  IF got = <<>> THEN [status |-> 404, table |-> T, body |-> <<>>]
        ELSE LET fl == FlushUser(T, got[1], req)
             IN  IF ~fl.ok THEN [status |-> 500, table |-> T, body |-> <<>>]
                 ELSE LET r == Refresh(fl.table, i)
                      IN  [status |-> r.status, table |-> fl.table, body |-> r.body]

\* Embedding.user_id is ForeignKey("users.id") with no ON DELETE clause, no
\* ORM relationship is declared, and the engine is created without
\* PRAGMA foreign_keys=ON: deleting a user neither is refused because of
\* embeddings that name it nor touches them.
ForeignKeyBlocksDelete(E, i) == FALSE
ForeignKeyCascade(E, i) == SelectSeq(E, LAMBDA r : r.user_id # i)
ForeignKeyOnDelete(E, i) == E

\* db.delete + db.commit of delete_user: DELETE FROM users WHERE id = i.
\* A DELETE that matches no row is a warning, not an error.
DeleteUserRowUncommitted(T, E, i) ==
    [ok |-> TRUE, table |-> T, embeddings |-> E]
DeleteUserRow(T, E, i) ==
    IF ForeignKeyBlocksDelete(E, i)
    THEN [ok |-> FALSE, table |-> T, embeddings |-> E]
    ELSE [ok |-> TRUE, table |-> DeleteById(T, i),
          embeddings |-> ForeignKeyOnDelete(E, i)]

delete_user(T, E, i) ==
    LET got == SelectById(T, i)
    IN  IF got = <<>>
        THEN [status |-> 404, table |-> T, embeddings |-> E, body |-> <<>>]
        ELSE LET del == DeleteUserRow(T, E, i)
             IN  IF ~del.ok
                 THEN [status |-> 500, table |-> T, embeddings |-> E, body |-> <<>>]
                 ELSE [status |-> 200, table |-> del.table,
                       embeddings |-> del.embeddings, body |-> got]

\* embedding_vector is a BLOB column and the request carries a Python list
\* of floats: the driver binds bytes to a BLOB parameter and refuses a
\* list, so a statement that carries the list raises inside db.commit().
BlobBindable(vector) == FALSE

\* db.add + db.commit of create_embedding.
InsertEmbedding(T, req) ==
    IF BlobBindable(req.embedding_vector)
    THEN [ok |-> TRUE,
          table |-> Append(T, [id |-> NextRowId(T), user_id |-> req.user_id,
                               embedding_vector |-> req.embedding_vector]),
          id |-> NextRowId(T)]
    ELSE [ok |-> FALSE, table |-> T, id |-> 0]

create_embedding(T, req) ==
    LET ins == InsertEmbedding(T, req)
    IN  IF ~ins.ok THEN [status |-> 500, table |-> T, body |-> <<>>]
        ELSE LET r == Refresh(ins.table, ins.id)
             IN  [status |-> r.status, table |-> ins.table, body |-> r.body]

read_embedding(T, i) ==
    LET got == SelectById(T, i)
    IN  IF got = <<>> THEN [status |-> 404, table |-> T, body |-> <<>>]
        ELSE [status |-> 200, table |-> T, body |-> got]

read_embeddings(T, skip, limit) ==
    [status |-> 200, table |-> T, body |-> Limit(Offset(T, skip), limit)]

\* for var, value in vars(embedding).items(): setattr(...) if value.
\* A non-zero user_id is written (the foreign key is not enforced by the
\* engine); a non-empty embedding_vector is set on the object and fails to
\* bind when the UPDATE is flushed, which rolls the whole request back.
SetEmbeddingAttrs(row, req) ==
    [row EXCEPT
        !.user_id = IF req.user_id # 0 THEN req.user_id ELSE @,
        !.embedding_vector =
            IF req.embedding_vector # <<>> THEN req.embedding_vector ELSE @]

\* db.commit of update_embedding: UPDATE embeddings SET <changed columns>.
\* A list set on embedding_vector always differs from the bytes loaded, so
\* it is always part of the UPDATE.
FlushEmbedding(T, loaded, req) ==
    LET target == SetEmbeddingAttrs(loaded, req)
    IN  IF req.embedding_vector # <<>> /\ ~BlobBindable(req.embedding_vector)
        THEN [ok |-> FALSE, table |-> T]
        ELSE IF target = loaded THEN [ok |-> TRUE, table |-> T]
        ELSE [ok |-> TRUE, table |-> ReplaceRow(T, target)]

update_embedding(T, i, req) ==
    LET got == SelectById(T, i)
    IN  IF got = <<>> THEN [status |-> 404, table |-> T, body |-> <<>>]
        ELSE LET fl == FlushEmbedding(T, got[1], req)
             IN  IF ~fl.ok THEN [status |-> 500, table |-> T, body |-> <<>>]
                 ELSE LET r == Refresh(fl.table, i)
                      IN  [status |-> r.status, table |-> fl.table, body |-> r.body]

delete_embedding(T, i) ==
    LET got == SelectById(T, i)
    IN  IF got = <<>> THEN [status |-> 404, table |-> T, body |-> <<>>]
        ELSE [status |-> 200, table |-> DeleteById(T, i), body |-> got]

---------------------------------------------------------------------------
(* State.                                                                  *)

NoReq == [name |-> "", email |-> "", phone |-> "", birthday |-> ""]
NoEmbReq == [user_id |-> 0, embedding_vector |-> <<>>]

\* The response to a request: the handler, its arguments, the status, and
\* the user rows (body) or embedding rows (ebody) it returned.
Response(op, i, req, ereq, skip, limit, status, body, ebody) ==
    [op |-> op, id |-> i, req |-> req, ereq |-> ereq, skip |-> skip,
     limit |-> limit, status |-> status, body |-> body, ebody |-> ebody]

NoResp == Response("none", 0, NoReq, NoEmbReq, 0, 0, 0, <<>>, <<>>)

Idle == [pc |-> "idle", op |-> "none", id |-> 0, req |-> NoReq,
         loaded |-> <<>>, status |-> 0]

\* The database file outlives the process: Base.metadata.create_all creates
\* the tables only when they are absent.  The embeddings found at start are
\* none, or rows written to the file earlier.
InitialEmbeddings ==
    { <<>>,
      <<[id |-> 1, user_id |-> 1, embedding_vector |-> <<1>>],
        [id |-> 2, user_id |-> 2, embedding_vector |-> <<2>>]>> }

Init ==
    /\ users = <<>>
    /\ embeddings \in InitialEmbeddings
    /\ now = 0
    /\ bootTime = 0
    /\ resp = NoResp
    /\ sess = [c \in Clients |-> Idle]

---------------------------------------------------------------------------
(* Spec: one request at a time, one action per handler.                    *)

CreateUser(req) ==
    /\ NextRowId(users) <= MaxId
    /\ LET r == create_user(users, bootTime, req)
       IN  /\ users' = r.table
           /\ resp' = Response("create_user", 0, req, NoEmbReq, 0, 0,
                               r.status, r.body, <<>>)
    /\ UNCHANGED <<embeddings, now, bootTime, sess>>

ReadUser(i) ==
    /\ LET r == read_user(users, i)
       IN  resp' = Response("read_user", i, NoReq, NoEmbReq, 0, 0,
                            r.status, r.body, <<>>)
    /\ UNCHANGED <<users, embeddings, now, bootTime, sess>>

ReadUsers(skip, limit) ==
    /\ LET r == read_users(users, skip, limit)
       IN  resp' = Response("read_users", 0, NoReq, NoEmbReq, skip, limit,
                            r.status, r.body, <<>>)
    /\ UNCHANGED <<users, embeddings, now, bootTime, sess>>

UpdateUser(i, req) ==
    /\ LET r == update_user(users, i, req)
       IN  /\ users' = r.table
           /\ resp' = Response("update_user", i, req, NoEmbReq, 0, 0,
                               r.status, r.body, <<>>)
    /\ UNCHANGED <<embeddings, now, bootTime, sess>>

DeleteUser(i) ==
    /\ LET r == delete_user(users, embeddings, i)
       IN  /\ users' = r.table
           /\ embeddings' = r.embeddings
           /\ resp' = Response("delete_user", i, NoReq, NoEmbReq, 0, 0,
                               r.status, r.body, <<>>)
    /\ UNCHANGED <<now, bootTime, sess>>

CreateEmbedding(ereq) ==
    /\ NextRowId(embeddings) <= MaxId
    /\ LET r == create_embedding(embeddings, ereq)
       IN  /\ embeddings' = r.table
           /\ resp' = Response("create_embedding", 0, NoReq, ereq, 0, 0,
                               r.status, <<>>, r.body)
    /\ UNCHANGED <<users, now, bootTime, sess>>

ReadEmbedding(i) ==
    /\ LET r == read_embedding(embeddings, i)
       IN  resp' = Response("read_embedding", i, NoReq, NoEmbReq, 0, 0,
                            r.status, <<>>, r.body)
    /\ UNCHANGED <<users, embeddings, now, bootTime, sess>>

ReadEmbeddings(skip, limit) ==
    /\ LET r == read_embeddings(embeddings, skip, limit)
       IN  resp' = Response("read_embeddings", 0, NoReq, NoEmbReq, skip, limit,
                            r.status, <<>>, r.body)
    /\ UNCHANGED <<users, embeddings, now, bootTime, sess>>

UpdateEmbedding(i, ereq) ==
    /\ LET r == update_embedding(embeddings, i, ereq)
       IN  /\ embeddings' = r.table
           /\ resp' = Response("update_embedding", i, NoReq, ereq, 0, 0,
                               r.status, <<>>, r.body)
    /\ UNCHANGED <<users, now, bootTime, sess>>

DeleteEmbedding(i) ==
    /\ LET r == delete_embedding(embeddings, i)
       IN  /\ embeddings' = r.table
           /\ resp' = Response("delete_embedding", i, NoReq, NoEmbReq, 0, 0,
                               r.status, <<>>, r.body)
    /\ UNCHANGED <<users, now, bootTime, sess>>

\* GET /: the welcome message, whatever the tables hold.
ReadRoot ==
    /\ resp' = Response("read_root", 0, NoReq, NoEmbReq, 0, 0, 200, <<>>, <<>>)
    /\ UNCHANGED <<users, embeddings, now, bootTime, sess>>

Next ==
    \/ \E req \in CreateReqs : CreateUser(req)
    \/ \E i \in Ids : ReadUser(i)
    \/ \E skip \in Skips, limit \in Limits : ReadUsers(skip, limit)
    \/ \E i \in Ids, req \in UpdateReqs : UpdateUser(i, req)
    \/ \E i \in Ids : DeleteUser(i)
    \/ ReadRoot

Spec == Init /\ [][Next]_vars

NextEmb ==
    \/ \E ereq \in EmbeddingReqs : CreateEmbedding(ereq)
    \/ \E i \in Ids : ReadEmbedding(i)
    \/ \E skip \in Skips, limit \in Limits : ReadEmbeddings(skip, limit)
    \/ \E i \in Ids, ereq \in EmbeddingReqs : UpdateEmbedding(i, ereq)
    \/ \E i \in Ids : DeleteEmbedding(i)

SpecEmb == Init /\ [][NextEmb]_vars

---------------------------------------------------------------------------
(* SpecClock: time passes between the requests.                            *)

Tick ==
    /\ now < MaxClock
    /\ now' = now + 1
    /\ UNCHANGED <<users, embeddings, bootTime, resp, sess>>

\* The server process is started again: the module is imported anew, the
\* tables exist already and keep their rows.
Restart ==
    /\ bootTime # now
    /\ bootTime' = now
    /\ UNCHANGED <<users, embeddings, now, resp, sess>>

ClockReqs == [name : {"n1"}, email : Emails, phone : Phones, birthday : Birthdays]
ClockUpdateReqs == [name : {"n2"}, email : {"", "e2"}, phone : {""}, birthday : {""}]

NextClock ==
    \/ \E req \in ClockReqs : CreateUser(req)
    \/ \E i \in Ids, req \in ClockUpdateReqs : UpdateUser(i, req)
    \/ \E i \in Ids : DeleteUser(i)
    \/ Tick
    \/ Restart

SpecClock == Init /\ [][NextClock]_vars

---------------------------------------------------------------------------
(* SpecConc: the writing user handlers of two clients, interleaved.  A     *)
(* handler is cut where it talks to the database: the SELECT that loads    *)
(* the row, the statement that db.commit() flushes together with its       *)
(* COMMIT (the engine lets one writer commit at a time), and the SELECT    *)
(* of db.refresh().  sess[c] is the session of get_db for the request of   *)
(* client c; it is closed when the handler returns or raises.              *)

ConcCreateReqs ==
    [name : {"n1"}, email : Emails, phone : Phones, birthday : Birthdays]
ConcUpdateReqs ==
    {r \in [name : {""}, email : Emails \cup {""}, phone : Phones \cup {""},
            birthday : {""}] : (r.email = "") # (r.phone = "")}

InitConc == Init /\ embeddings = <<>>

Free(c) == sess[c].pc \in {"idle", "done"}

Done(op, req, status) ==
    [pc |-> "done", op |-> op, id |-> 0, req |-> req, loaded |-> <<>>,
     status |-> status]

\* create_user up to db.add: the new object is pending in the session.
PostUser(c, req) ==
    /\ Free(c)
    /\ sess' = [sess EXCEPT ![c] =
                   [pc |-> "insert", op |-> "create_user", id |-> 0,
                    req |-> req, loaded |-> <<>>, status |-> 0]]
    /\ UNCHANGED <<users, embeddings, now, bootTime, resp>>

\* db.commit of create_user.
CommitInsert(c) ==
    /\ sess[c].pc = "insert"
    /\ LET ins == InsertUser(users, bootTime, sess[c].req)
       IN  /\ ins.ok => ins.id <= MaxConcId
           /\ users' = ins.table
           /\ sess' = [sess EXCEPT ![c] =
                          IF ins.ok
                          THEN [@ EXCEPT !.pc = "refresh", !.id = ins.id]
                          ELSE Done("create_user", sess[c].req, 500)]
    /\ UNCHANGED <<embeddings, now, bootTime, resp>>

\* db.refresh and the return, of create_user and of update_user.
RefreshRow(c) ==
    /\ sess[c].pc = "refresh"
    /\ sess' = [sess EXCEPT ![c] =
                   Done(sess[c].op, sess[c].req, Refresh(users, sess[c].id).status)]
    /\ UNCHANGED <<users, embeddings, now, bootTime, resp>>

\* update_user up to the setattr loop: the row is loaded into the session.
LoadForUpdate(c, i, req) ==
    /\ Free(c)
    /\ LET got == SelectById(users, i)
       IN  sess' = [sess EXCEPT ![c] =
                       IF got = <<>> THEN Done("update_user", req, 404)
                       ELSE [pc |-> "flush", op |-> "update_user", id |-> i,
                             req |-> req, loaded |-> got, status |-> 0]]
    /\ UNCHANGED <<users, embeddings, now, bootTime, resp>>

\* db.commit of update_user.
CommitUpdate(c) ==
    /\ sess[c].pc = "flush"
    /\ LET fl == FlushUser(users, sess[c].loaded[1], sess[c].req)
       IN  /\ users' = fl.table
           /\ sess' = [sess EXCEPT ![c] =
                          IF fl.ok
                          THEN [@ EXCEPT !.pc = "refresh", !.loaded = <<>>]
                          ELSE Done("update_user", sess[c].req, 500)]
    /\ UNCHANGED <<embeddings, now, bootTime, resp>>

\* delete_user up to db.delete: the row is loaded and marked deleted.
LoadForDelete(c, i) ==
    /\ Free(c)
    /\ LET got == SelectById(users, i)
       IN  sess' = [sess EXCEPT ![c] =
                       IF got = <<>> THEN Done("delete_user", NoReq, 404)
                       ELSE [pc |-> "delete", op |-> "delete_user", id |-> i,
                             req |-> NoReq, loaded |-> <<>>, status |-> 0]]
    /\ UNCHANGED <<users, embeddings, now, bootTime, resp>>

\* db.commit of delete_user, and the return.
CommitDelete(c) ==
    /\ sess[c].pc = "delete"
    /\ LET del == DeleteUserRow(users, embeddings, sess[c].id)
       IN  /\ users' = del.table
           /\ embeddings' = del.embeddings
           /\ sess' = [sess EXCEPT ![c] =
                          Done("delete_user", NoReq, IF del.ok THEN 200 ELSE 500)]
    /\ UNCHANGED <<now, bootTime, resp>>

ConcIds == 1 .. MaxConcId

NextConc ==
    \E c \in Clients :
        \/ \E req \in ConcCreateReqs : PostUser(c, req)
        \/ CommitInsert(c)
        \/ RefreshRow(c)
        \/ \E i \in ConcIds, req \in ConcUpdateReqs : LoadForUpdate(c, i, req)
        \/ CommitUpdate(c)
        \/ \E i \in ConcIds : LoadForDelete(c, i)
        \/ CommitDelete(c)

SpecConc == InitConc /\ [][NextConc]_vars

---------------------------------------------------------------------------
(* Properties.                                                             *)

UniqueUsers(T) ==
    \A j, k \in 1 .. Len(T) :
        j # k => T[j].email # T[k].email /\ T[j].phone # T[k].phone

UniqueIds(T) == \A j, k \in 1 .. Len(T) : j # k => T[j].id # T[k].id

\* Some stored user holds the email or the phone of the request.
Held(T, req) ==
    \E k \in 1 .. Len(T) : T[k].email = req.email \/ T[k].phone = req.phone

\* C1: in every state reached by interleaved Create, Update and Delete
\* requests, no two stored users have the same email and no two have the
\* same phone - also when an Update tries to take a value another user holds.
C1_UniqueEmailAndPhone == UniqueUsers(users)

\* An update that asked for the email or phone of the other stored user was
\* rejected, and both users are still stored.
C1_Witness ==
    \E c \in Clients :
        /\ sess[c].pc = "done" /\ sess[c].op = "update_user"
        /\ sess[c].status = 500
        /\ Len(users) = 2
        /\ Held(users, sess[c].req)

\* C2: a Create whose email or phone is held by a stored user fails and has
\* no effect: users and embeddings are what they were, no row and no id has
\* been taken.
C2_DuplicateCreateHasNoEffect ==
    [][\A req \in CreateReqs :
          (resp'.op = "create_user" /\ Held(users, req) /\ CreateUser(req))
              => /\ resp'.status = 500
                 /\ resp'.body = <<>>
                 /\ users' = users
                 /\ embeddings' = embeddings
                 /\ NextRowId(users') = NextRowId(users)]_vars

\* The last request was a Create that collided on the phone alone and was
\* refused, with users and embeddings stored.
C2_Witness ==
    /\ resp.op = "create_user" /\ resp.status = 500
    /\ Len(embeddings) > 0
    /\ \E k \in 1 .. Len(users) : users[k].phone = resp.req.phone
    /\ \A k \in 1 .. Len(users) : users[k].email # resp.req.email

\* C3: in every reachable state a Create whose email and phone no stored
\* user holds succeeds; the record returned carries the fields of the
\* request, an id and a date_added the request did not carry, the id is
\* that of no user stored before, and ids stay unique among stored users.
C3_FreshCreateSucceeds ==
    \A req \in CreateReqs :
        ~Held(users, req) =>
            LET r == create_user(users, bootTime, req)
            IN  /\ r.status = 200
                /\ Len(r.body) = 1
                /\ \A f \in UserFields : r.body[1][f] = req[f]
                /\ {"id", "date_added"} \subseteq DOMAIN r.body[1]
                /\ {"id", "date_added"} \cap DOMAIN req = {}
                /\ r.body[1].id >= 1
                /\ \A k \in 1 .. Len(users) : users[k].id # r.body[1].id
                /\ SelectById(r.table, r.body[1].id) = r.body
                /\ UniqueIds(r.table)

\* A Create has just succeeded next to another stored user, after an
\* earlier user was deleted.
C3_Witness ==
    /\ resp.op = "create_user" /\ resp.status = 200
    /\ Len(users) = 2
    /\ users[1].id > 1
    /\ resp.body[1].id = users[2].id

\* C4: right after a successful Create, GetByID on the returned id returns
\* the record Create returned, field for field.
C4_ReadAfterCreate ==
    (resp.op = "create_user" /\ resp.status = 200) =>
        LET got == read_user(users, resp.body[1].id)
        IN  /\ got.status = 200
            /\ got.body = resp.body
            /\ \A f \in {"id", "name", "email", "phone", "birthday", "date_added"} :
                   got.body[1][f] = resp.body[1][f]

\* A Create has just succeeded as the second stored user.
C4_Witness ==
    /\ resp.op = "create_user" /\ resp.status = 200
    /\ Len(users) = 2
    /\ resp.body[1].name = "n2"

\* C5: right after a successful Delete(id), GetByID(id) reports 404 and
\* returns no record.
C5_ReadAfterDelete ==
    (resp.op = "delete_user" /\ resp.status = 200) =>
        LET got == read_user(users, resp.id)
        IN  got.status = 404 /\ got.body = <<>>

\* A Delete has just succeeded and another user is still stored.
C5_Witness ==
    /\ resp.op = "delete_user" /\ resp.status = 200
    /\ Len(resp.body) = 1 /\ resp.body[1].id = resp.id
    /\ Len(users) = 1

Skipped(T, skip) == IF skip <= 0 THEN 0 ELSE IF skip < Len(T) THEN skip ELSE Len(T)
IsSlice(T, body, skip, n) ==
    /\ Len(body) = n
    /\ \A j \in 1 .. n : body[j] = T[Skipped(T, skip) + j]
AtMost(limit, rest) == IF limit < 0 THEN 0 ELSE IF limit < rest THEN limit ELSE rest

C9_DateAddedIsCreationTime ==
    [][/\ \A req \in ClockReqs :
              (resp'.op = "create_user" /\ resp'.status = 200 /\ CreateUser(req))
                  => resp'.body[1].date_added = now
       /\ \A j \in 1 .. Len(users), k \in 1 .. Len(users') :
              users[j].id = users'[k].id
                  => users'[k].date_added = users[j].date_added]_vars

\* C10: a successful Delete(id) of a user removes that row and nothing
\* else: the other users and all embeddings, those with user_id = id
\* included, are unchanged; embeddings that name the user do not block it.
C10_NoCascadingDelete ==
    [][\A i \in Ids :
          (resp'.op = "delete_user" /\ SelectById(users, i) # <<>> /\ DeleteUser(i))
              => /\ resp'.status = 200
                 /\ users' = SelectSeq(users, LAMBDA r : r.id # i)
                 /\ Len(users') = Len(users) - 1
                 /\ embeddings' = embeddings]_vars

\* A user has just been deleted while an embedding names it and another
\* user is stored.
C10_Witness ==
    /\ resp.op = "delete_user" /\ resp.status = 200
    /\ \E k \in 1 .. Len(embeddings) : embeddings[k].user_id = resp.id
    /\ Len(users) = 1

\* Two create requests that ask for the same email or the same phone.
Shares(a, b) == a.email = b.email \/ a.phone = b.phone

\* The value(s) two such requests share are held by no stored user.
SharedFree(T, a, b) ==
    \A k \in 1 .. Len(T) :
        /\ a.email = b.email => T[k].email # a.email
        /\ a.phone = b.phone => T[k].phone # a.phone

\* Client c commits its INSERT in this step while client d has a Create in
\* flight that shares a unique value with it.
RacingCommit(c, d) ==
    /\ c # d
    /\ sess[c].pc = "insert" /\ sess'[c].pc # "insert"
    /\ sess[d].op = "create_user" /\ sess[d].pc \in {"insert", "refresh"}
    /\ Shares(sess[c].req, sess[d].req)

Rejected(c) ==
    /\ sess'[c].pc = "done" /\ sess'[c].status = 500
    /\ users' = users

Stored(c) ==
    /\ sess'[c].pc = "refresh"
    /\ Len(users') = Len(users) + 1
    /\ SubSeq(users', 1, Len(users)) = users
    /\ users'[Len(users')].id = sess'[c].id
    /\ \A f \in UserFields : users'[Len(users')][f] = sess[c].req[f]

\* C8 as claimed: of two concurrent Creates with the same email or phone,
\* a value no stored user holds, exactly one succeeds and the later write
\* is rejected: the one that commits first is stored, the one that commits
\* while the other's row is stored is rejected, and the store never holds
\* both rows.
C8_Original ==
    [][\A c, d \in Clients :
          RacingCommit(c, d) =>
              /\ (sess[d].pc = "insert"
                    /\ SharedFree(users, sess[c].req, sess[d].req)) => Stored(c)
              /\ (sess[d].pc = "refresh"
                    /\ SelectById(users, sess[d].id) # <<>>) => Rejected(c)
              /\ UniqueUsers(users')]_vars

\* C8: of two concurrent Creates with the same email or phone the store
\* never holds both rows.  Each commit is decided against the users stored
\* at that moment: it is rejected, without effect, when a stored user
\* holds its email or its phone (so the later of the two is rejected while
\* the earlier one's row is stored), and it is stored otherwise (so the
\* first to commit succeeds only if its other unique field is free too).
C8_RacingCreates ==
    [][\A c, d \in Clients :
          RacingCommit(c, d) =>
              /\ Held(users, sess[c].req) => Rejected(c)
              /\ ~Held(users, sess[c].req) => Stored(c)
              /\ (sess[d].pc = "refresh"
                    /\ SelectById(users, sess[d].id) # <<>>
                    /\ Shares(sess[c].req, SelectById(users, sess[d].id)[1]))
                     => Rejected(c)
              /\ UniqueUsers(users')]_vars

\* Two Creates with the same email were in flight; one is stored and not
\* yet returned, the other has been rejected, and no other user is stored.
C8_Witness ==
    \E c, d \in Clients :
        /\ c # d
        /\ sess[c].pc = "done" /\ sess[c].op = "create_user"
        /\ sess[c].status = 500
        /\ sess[d].pc = "refresh" /\ sess[d].op = "create_user"
        /\ sess[c].req.email = sess[d].req.email
        /\ sess[c].req.phone # sess[d].req.phone
        /\ Len(users) = 1 /\ users[1].id = sess[d].id
        /\ users[1].email = sess[d].req.email

=============================================================================
